---- MODULE Spec2Model ----
(***************************************************************************)
(* The three pixel-buffer transforms of js-wasm-vis:                       *)
(*   test1  invert_colors   (src/wasm/test1/wasm-src-test1/src/lib.rs)     *)
(*   test2  quantize        (src/wasm/test2/wasm-src-test2/src/lib.rs)     *)
(*   test3  edge_detection  (src/wasm/test3/wasm-src-test3/src/lib.rs)     *)
(* Every buffer is a flat RGBA byte sequence (1-based here, 0-based in     *)
(* the source).  An ImageData always has width >= 1, height >= 1 and       *)
(* width*height*4 bytes, so those are the only inputs drawn.               *)
(*                                                                         *)
(* The f64 values of quantize are modelled as exact rationals: a colour    *)
(* point is <<r, g, b, n>> and stands for (r/n, g/n, b/n), in lowest       *)
(* terms.  Pixels have n = 1.                                              *)
(***************************************************************************)
EXTENDS Integers, Sequences, FiniteSets, TLC

VARIABLES
    inv_input,      \* test1: the buffer X first handed to invert_colors
    inv_data,       \* test1: the buffer after the calls made so far
    inv_calls,      \* test1: number of invert_colors calls made
    width,          \* test3: image_data.width()
    height,         \* test3: image_data.height()
    edge_input,     \* test3: image_data.data()
    blurred,        \* test3: the buffer returned by blur
    edge_output,    \* test3: the buffer returned by edge_detection
    edge_pc,        \* test3: "start" | "blurred" | "done"
    edge_result,    \* test3: "none" | "ok" | "err"
    q_data,         \* test2: image_data.data()
    k,              \* test2: the requested number of colours
    q_pc,           \* test2: "start" | "loop" | "recolor" | "done" | "panic"
    pixels,         \* test2: the RGB points of all pixels
    sampled_pixels, \* test2: the training sample
    centroids,      \* test2: the current centroid sequence
    iterations,     \* test2: refinement iterations entered so far
    clusters,       \* test2: cluster id (0-based) of each sample point, last iteration
    old_centroids,  \* test2: the centroids the last iteration started from
    new_centroids,  \* test2: the centroids the last iteration recomputed
    converged,      \* test2: what centroids_converged returned in the last iteration
    q_output        \* test2: the buffer returned by quantize

inv_vars == <<inv_input, inv_data, inv_calls>>
edge_vars == <<width, height, edge_input, blurred, edge_output, edge_pc, edge_result>>
q_vars == <<q_data, k, q_pc, pixels, sampled_pixels, centroids, iterations, clusters,
            old_centroids, new_centroids, converged, q_output>>
vars == <<inv_input, inv_data, inv_calls,
          width, height, edge_input, blurred, edge_output, edge_pc, edge_result,
          q_data, k, q_pc, pixels, sampled_pixels, centroids, iterations, clusters,
          old_centroids, new_centroids, converged, q_output>>

-----------------------------------------------------------------------------
(* Bounds of the model *)

MaxInvPixels == 2
MaxCalls == 2
MaxDim == 5
MaxQPixels == 3
MaxK == 3

-----------------------------------------------------------------------------
(* Shared helpers *)

\* f64::round of the non-negative quotient n/d (half rounds away from zero)
RoundDiv(n, d) == (2 * n + d) \div (2 * d)

\* the flat buffer of a sequence of RGBA pixels
Flatten(rgba) ==
    [i \in 1..(4 * Len(rgba)) |-> rgba[((i - 1) \div 4) + 1][((i - 1) % 4) + 1]]

-----------------------------------------------------------------------------
(* test1: invert_colors *)

InvPalette ==
    { <<0, 0, 0, 255>>, <<255, 0, 0, 255>>, <<255, 255, 255, 0>>,
      <<1, 127, 128, 7>>, <<254, 128, 127, 248>>, <<10, 200, 77, 128>> }

InvImages ==
    UNION { [1..n -> InvPalette] : n \in 1..MaxInvPixels }

\* the alpha byte is left as is (the variant below inverts it too)
invert_alpha_too(data) ==
    [i \in 1..Len(data) |-> 255 - data[i]]

invert_colors(data) ==
    [i \in 1..Len(data) |-> IF (i - 1) % 4 = 3 THEN data[i] ELSE 255 - data[i]]

InvInit ==
    /\ inv_input \in { Flatten(img) : img \in InvImages }
    /\ inv_data = inv_input
    /\ inv_calls = 0

InvIdle ==
    /\ inv_input = <<>>
    /\ inv_data = <<>>
    /\ inv_calls = 0

InvertColorsCall ==
    /\ inv_calls < MaxCalls
    /\ inv_data' = invert_colors(inv_data)
    /\ inv_calls' = inv_calls + 1
    /\ UNCHANGED <<inv_input>>
    /\ UNCHANGED edge_vars
    /\ UNCHANGED q_vars

-----------------------------------------------------------------------------
(* test3: blur and edge_detection *)

kernel == << <<1, 2, 1>>, <<2, 4, 2>>, <<1, 2, 1>> >>
sum_k == 16
sobel_x == << <<-1, 0, 1>>, <<-2, 0, 2>>, <<-1, 0, 1>> >>
sobel_y == << <<-1, -2, -1>>, <<0, 0, 0>>, <<1, 2, 1>> >>
thresh == 170

\* data[(py * width + px) * 4 + ch], 0-based in the source
Byte(data, w, px, py, ch) == data[(py * w + px) * 4 + ch + 1]

\* the loops "for y in 1..height-1 { for x in 1..width-1" (upper end excluded)
Interior(w, h, x, y) == x \in 1..(w - 2) /\ y \in 1..(h - 2)

\* the loops "for ky in 0..3 { for kx in 0..3"
Sum3x3(F(_, _)) ==
    F(0, 0) + F(0, 1) + F(0, 2) + F(1, 0) + F(1, 1) + F(1, 2) + F(2, 0) + F(2, 1) + F(2, 2)

\* ((r + g + b) as f64 / 3.0).round()
gray(data, w, px, py) ==
    RoundDiv(Byte(data, w, px, py, 0) + Byte(data, w, px, py, 1) + Byte(data, w, px, py, 2), 3)

blur_acc(data, w, x, y) ==
    Sum3x3(LAMBDA ky, kx : gray(data, w, x + kx - 1, y + ky - 1) * kernel[ky + 1][kx + 1])

blur_g(data, w, x, y) == RoundDiv(blur_acc(data, w, x, y), sum_k)

\* out starts as vec![0u8; len]; only the interior is written
blur(data, w, h) ==
    [i \in 1..Len(data) |->
        LET p == (i - 1) \div 4
            ch == (i - 1) % 4
            x == p % w
            y == p \div w
        IN  IF Interior(w, h, x, y)
            THEN IF ch = 3 THEN 255 ELSE blur_g(data, w, x, y)
            ELSE 0]

sobel_gx(data, w, x, y) ==
    Sum3x3(LAMBDA ky, kx : Byte(data, w, x + kx - 1, y + ky - 1, 0) * sobel_x[ky + 1][kx + 1])

sobel_gy(data, w, x, y) ==
    Sum3x3(LAMBDA ky, kx : Byte(data, w, x + kx - 1, y + ky - 1, 0) * sobel_y[ky + 1][kx + 1])

\* the largest n in lo..hi with (n - 1/2)^2 <= s, i.e. f64::round(sqrt(s))
RECURSIVE SqrtSearch(_, _, _)
SqrtSearch(s, lo, hi) ==
    IF lo = hi THEN lo
    ELSE LET mid == (lo + hi + 1) \div 2
         IN  IF (2 * mid - 1) * (2 * mid - 1) <= 4 * s
             THEN SqrtSearch(s, mid, hi)
             ELSE SqrtSearch(s, lo, mid - 1)

RoundSqrt(s) == SqrtSearch(s, 0, 2048)

Min2(a, b) == IF a < b THEN a ELSE b

\* ((gx*gx + gy*gy) as f64).sqrt().round().min(255.0) as u8
magnitude(data, w, x, y) ==
    LET gx == sobel_gx(data, w, x, y)
        gy == sobel_gy(data, w, x, y)
    IN  Min2(RoundSqrt(gx * gx + gy * gy), 255)

\* a faulty variant: compares with >=
edge_at_least(m) == IF m >= thresh THEN 255 ELSE 0

edge(m) == IF m > thresh THEN 255 ELSE 0

\* output starts as vec![0u8; len]; only the interior is written
sobel(data, w, h) ==
    [i \in 1..Len(data) |->
        LET p == (i - 1) \div 4
            ch == (i - 1) % 4
            x == p % w
            y == p \div w
        IN  IF Interior(w, h, x, y)
            THEN IF ch = 3 THEN 255 ELSE edge(magnitude(data, w, x, y))
            ELSE 0]

EdgePalette ==
    { <<0, 0, 0, 255>>, <<128, 128, 128, 255>>, <<255, 255, 255, 255>>,
      <<255, 0, 0, 128>>, <<40, 40, 40, 255>>, <<60, 50, 40, 0>> }

EdgeKinds == {"vstep", "hstep", "checker", "dot"}

\* the pixel at (x, y) of a w x h test image; c1 = c2 gives a uniform image
EdgePixel(kind, c1, c2, w, h, x, y) ==
    CASE kind = "vstep" -> IF x < (w + 1) \div 2 THEN c1 ELSE c2
      [] kind = "hstep" -> IF y < (h + 1) \div 2 THEN c1 ELSE c2
      [] kind = "checker" -> IF (x + y) % 2 = 0 THEN c1 ELSE c2
      [] OTHER -> IF x = w \div 2 /\ y = h \div 2 THEN c2 ELSE c1

EdgeImage(kind, c1, c2, w, h) ==
    [i \in 1..(w * h * 4) |->
        LET p == (i - 1) \div 4
        IN  EdgePixel(kind, c1, c2, w, h, p % w, p \div w)[((i - 1) % 4) + 1]]

EdgeInit ==
    /\ width \in 1..MaxDim
    /\ height \in 1..MaxDim
    /\ \E kind \in EdgeKinds, c1 \in EdgePalette, c2 \in EdgePalette :
           edge_input = EdgeImage(kind, c1, c2, width, height)
    /\ blurred = <<>>
    /\ edge_output = <<>>
    /\ edge_pc = "start"
    /\ edge_result = "none"

EdgeIdle ==
    /\ width = 0
    /\ height = 0
    /\ edge_input = <<>>
    /\ blurred = <<>>
    /\ edge_output = <<>>
    /\ edge_pc = "idle"
    /\ edge_result = "none"

\* edge_detection, line 7: let blurred = blur(&image_data)?
\* (ImageData::new_with_u8_clamped_array_and_sh succeeds: the length fits)
Blur ==
    /\ edge_pc = "start"
    /\ blurred' = blur(edge_input, width, height)
    /\ edge_pc' = "blurred"
    /\ UNCHANGED <<width, height, edge_input, edge_output, edge_result>>
    /\ UNCHANGED inv_vars
    /\ UNCHANGED q_vars

\* edge_detection, lines 8-50: the Sobel pass over the blurred buffer
Sobel ==
    /\ edge_pc = "blurred"
    /\ edge_output' = sobel(blurred, width, height)
    /\ edge_pc' = "done"
    /\ edge_result' = "ok"
    /\ UNCHANGED <<width, height, edge_input, blurred>>
    /\ UNCHANGED inv_vars
    /\ UNCHANGED q_vars


-----------------------------------------------------------------------------
(* test2: exact arithmetic on colour points <<r, g, b, n>> = (r/n, g/n, b/n) *)

Abs(a) == IF a < 0 THEN -a ELSE a

RECURSIVE Gcd(_, _)
Gcd(a, b) == IF b = 0 THEN a ELSE Gcd(b, a % b)

\* the point in lowest terms
Reduce(c) ==
    LET g == Gcd(Gcd(Gcd(Abs(c[1]), Abs(c[2])), Abs(c[3])), c[4])
    IN  <<c[1] \div g, c[2] \div g, c[3] \div g, c[4] \div g>>

\* a/b < c/d for a, c >= 0 and b, d > 0, without forming a*d and c*b
RECURSIVE FracLess(_, _, _, _)
FracLess(a, b, c, d) ==
    LET qa == a \div b
        qc == c \div d
        ra == a % b
        rc == c % d
    IN  IF qa # qc THEN qa < qc
        ELSE IF rc = 0 THEN FALSE
        ELSE IF ra = 0 THEN TRUE
        ELSE FracLess(d, rc, b, ra)

\* f64::INFINITY, as a distance
Infinity == <<1, 0>>

\* the square of euclidean_distance(p1, p2), as <<numerator, denominator>>;
\* sqrt is monotone, so distances compare as their squares do
Dist2(p1, p2) ==
    LET dr == p1[1] * p2[4] - p2[1] * p1[4]
        dg == p1[2] * p2[4] - p2[2] * p1[4]
        db == p1[3] * p2[4] - p2[3] * p1[4]
        dn == p1[4] * p2[4]
    IN  <<dr * dr + dg * dg + db * db, dn * dn>>

\* d1 < d2 on distances
DistLess(d1, d2) ==
    IF d1 = Infinity THEN FALSE
    ELSE IF d2 = Infinity THEN TRUE
    ELSE FracLess(d1[1], d1[2], d2[1], d2[2])

\* euclidean_distance(p1, p2) > t for an integer t: with x the channel
\* differences over the common denominator dn, sum(x^2) > (t*dn)^2; one
\* |x| > t*dn decides it before any square is formed
DistExceeds(p1, p2, t) ==
    LET dr == Abs(p1[1] * p2[4] - p2[1] * p1[4])
        dg == Abs(p1[2] * p2[4] - p2[2] * p1[4])
        db == Abs(p1[3] * p2[4] - p2[3] * p1[4])
        dn == t * p1[4] * p2[4]
    IN  \/ dr > dn
        \/ dg > dn
        \/ db > dn
        \/ dr * dr + dg * dg + db * db > dn * dn

-----------------------------------------------------------------------------
(* test2: quantize *)

sample_cap == 1000
stride_div == 1000
\* a faulty variant: runs one round more
max_iterations_long == 20 + 1

max_iterations == 20
threshold == 1

\* lines 13-20: one RGB point per pixel, alpha dropped
extract_pixels(data) ==
    [i \in 1..(Len(data) \div 4) |->
        <<data[4 * i - 3], data[4 * i - 2], data[4 * i - 1], 1>>]

\* idx = (i as f64 * step).floor() with step = len / sample_size
deterministic_sample(px, sample_size) ==
    [i \in 1..sample_size |-> px[(((i - 1) * Len(px)) \div sample_size) + 1]]

\* the inner loop of lines 112-118: the distance to the nearest centroid
min_dist_to(pixel, cs) ==
    LET ds == { Dist2(pixel, cs[j]) : j \in 1..Len(cs) }
    IN  CHOOSE d \in ds : \A e \in ds : ~DistLess(e, d)

\* a faulty variant: never updates best_pixel_idx
farthest_index_stuck(px, cs) == 0

\* lines 102-125: the scan "for i in (0..len).step_by(sample_rate)" keeps the
\* first index whose min_dist is strictly greater than all before it (every
\* distance is > -1.0): the lowest scanned index with the largest min_dist
farthest_index(px, cs) ==
    LET sample_rate == IF Len(px) \div stride_div > 1
                       THEN Len(px) \div stride_div ELSE 1
        scanned == { i \in 0..(Len(px) - 1) : i % sample_rate = 0 }
        ds == { min_dist_to(px[i + 1], cs) : i \in scanned }
        max_min_dist == CHOOSE d \in ds : \A e \in ds : ~DistLess(d, e)
    IN  CHOOSE i \in scanned :
            /\ min_dist_to(px[i + 1], cs) = max_min_dist
            /\ \A j \in scanned : j < i => min_dist_to(px[j + 1], cs) # max_min_dist

\* the loop "for _ in 1..k", rounds = k - 1 when k >= 1
RECURSIVE push_centroids(_, _, _)
push_centroids(px, cs, rounds) ==
    IF rounds <= 0 THEN cs
    ELSE push_centroids(px, Append(cs, px[farthest_index(px, cs) + 1]), rounds - 1)

initialize_centroids_deterministic(px, kk) ==
    IF Len(px) = 0 THEN <<>>
    ELSE push_centroids(px, <<px[(Len(px) \div 4) + 1]>>, kk - 1)

\* the scan of find_nearest_centroid from centroid i on (ids are 0-based)
RECURSIVE nearest_from(_, _, _, _, _)
nearest_from(pixel, cs, i, min_dist, nearest) ==
    IF i > Len(cs) THEN nearest
    ELSE LET dist == Dist2(pixel, cs[i])
         IN  IF DistLess(dist, min_dist)
             THEN nearest_from(pixel, cs, i + 1, dist, i - 1)
             ELSE nearest_from(pixel, cs, i + 1, min_dist, nearest)

\* a faulty variant: compares with <=, so the last of equally near centroids wins
find_nearest_centroid_last(pixel, cs) ==
    LET best == { j \in 1..Len(cs) :
                    \A m \in 1..Len(cs) : ~DistLess(Dist2(pixel, cs[m]), Dist2(pixel, cs[j])) }
    IN  IF best = {} THEN 0 ELSE (CHOOSE j \in best : \A m \in best : m <= j) - 1

find_nearest_centroid(pixel, cs) == nearest_from(pixel, cs, 1, Infinity, 0)

RECURSIVE SumWeighted(_)
SumWeighted(count) ==
    IF DOMAIN count = {} THEN 0
    ELSE LET v == CHOOSE x \in DOMAIN count : TRUE
         IN  v * count[v] + SumWeighted([x \in (DOMAIN count) \ {v} |-> count[x]])

\* the fold of calculate_mean over one channel of the members
channel_sum(px, members, ch) ==
    SumWeighted([v \in { px[i][ch] : i \in members } |->
                    Cardinality({ i \in members : px[i][ch] = v })])

\* members: the sample indexes of a non-empty cluster
calculate_mean(px, members) ==
    Reduce(<<channel_sum(px, members, 1), channel_sum(px, members, 2),
             channel_sum(px, members, 3), Cardinality(members)>>)

cluster_members(assign, c) == { i \in 1..Len(assign) : assign[i] = c }

\* a faulty variant: reseeds an empty cluster with the first sample point
new_centroid_reseed(px, assign, cs, c) ==
    IF cluster_members(assign, c) = {} THEN px[1]
    ELSE calculate_mean(px, cluster_members(assign, c))

\* lines 42-48, for cluster id c (0-based)
new_centroid(px, assign, cs, c) ==
    IF cluster_members(assign, c) = {} THEN cs[c + 1]
    ELSE calculate_mean(px, cluster_members(assign, c))

\* the pairs of old.iter().zip(new.iter())
centroids_converged(old, new, t) ==
    \A i \in 1..Min2(Len(old), Len(new)) : ~DistExceeds(old[i], new[i], t)

\* c[ch].round() as u8
to_u8(c, ch) == RoundDiv(c[ch], c[4])

\* a faulty variant: writes the pixel itself
recolor_point_self(pixel, cs) == pixel

\* lines 60-61: the centroid the pixel is recoloured with
recolor_point(pixel, cs) == cs[find_nearest_centroid(pixel, cs) + 1]

\* lines 58-67
recolor(data, px, cs) ==
    [i \in 1..Len(data) |->
        IF (i - 1) % 4 = 3 THEN data[i]
        ELSE to_u8(recolor_point(px[((i - 1) \div 4) + 1], cs), ((i - 1) % 4) + 1)]

-----------------------------------------------------------------------------
(* test2: the inputs *)

QPalette ==
    { <<0, 0, 0, 255>>, <<100, 100, 100, 0>>, <<101, 100, 100, 255>>,
      <<200, 200, 200, 128>>, <<255, 0, 0, 255>> }

QSmallImages ==
    UNION { [1..n -> QPalette] : n \in 1..MaxQPixels }

Black == <<0, 0, 0, 255>>
White == <<255, 255, 255, 200>>

\* a w x h checkerboard of Black and White
Checkerboard(w, h) ==
    Flatten([i \in 1..(w * h) |->
        IF (((i - 1) % w) + ((i - 1) \div w)) % 2 = 0 THEN Black ELSE White])

\* the image whose pixels are runs[j][1] repeated runs[j][2] * unit times, in order
RECURSIVE RunStarts(_, _)
RunStarts(runs, j) == IF j = 1 THEN 0 ELSE RunStarts(runs, j - 1) + runs[j - 1][2]

RunImage(runs, unit) ==
    LET total == RunStarts(runs, Len(runs) + 1) * unit
    IN  Flatten([i \in 1..total |->
            LET j == CHOOSE jj \in 1..Len(runs) :
                        /\ RunStarts(runs, jj) * unit < i
                        /\ i <= RunStarts(runs, jj + 1) * unit
            IN  <<runs[j][1], 0, 0, 255>>])

\* 1000 pixels in six runs of red levels, then one pixel of level 146
AbandonedRuns ==
    << <<0, 1>>, <<40, 2>>, <<243, 1>>, <<82, 2>>, <<162, 8>>, <<163, 6>> >>

AbandonedImage == RunImage(AbandonedRuns, 50) \o <<146, 0, 0, 255>>

\* 500 pixels of level 0, 500 of level 200, then one translucent pixel of level 100
TieRuns == << <<0, 10>>, <<200, 10>> >>

TieImage == RunImage(TieRuns, 50) \o <<100, 0, 0, 128>>

\* 30 pixels of red levels on which the refinement is still moving after 20 rounds
SlowLevels ==
    <<0, 255, 253, 112, 143, 119, 91, 154, 134, 158, 147, 186, 108, 100, 140,
      117, 161, 12, 79, 24, 220, 209, 152, 131, 123, 137, 246, 186, 248, 128>>

SlowImage == Flatten([i \in 1..Len(SlowLevels) |-> <<SlowLevels[i], 0, 0, 255>>])

QLargeInputs ==
    { <<Checkerboard(125, 16), 2>>, <<Checkerboard(143, 7), 2>>,
      <<AbandonedImage, 3>>, <<TieImage, 2>>, <<SlowImage, 2>> }

QInit ==
    /\ \/ /\ q_data \in { Flatten(img) : img \in QSmallImages }
          /\ k \in 0..MaxK
       \/ \E input \in QLargeInputs : q_data = input[1] /\ k = input[2]
    /\ q_pc = "start"
    /\ pixels = <<>>
    /\ sampled_pixels = <<>>
    /\ centroids = <<>>
    /\ iterations = 0
    /\ clusters = <<>>
    /\ old_centroids = <<>>
    /\ new_centroids = <<>>
    /\ converged = FALSE
    /\ q_output = <<>>

QIdle ==
    /\ q_data = <<>>
    /\ k = 0
    /\ q_pc = "idle"
    /\ pixels = <<>>
    /\ sampled_pixels = <<>>
    /\ centroids = <<>>
    /\ iterations = 0
    /\ clusters = <<>>
    /\ old_centroids = <<>>
    /\ new_centroids = <<>>
    /\ converged = FALSE
    /\ q_output = <<>>

-----------------------------------------------------------------------------
(* test2: the steps of quantize *)

\* lines 8-27: extract, sample, initialise
Prepare ==
    /\ q_pc = "start"
    /\ pixels' = extract_pixels(q_data)
    /\ sampled_pixels' = deterministic_sample(pixels', Min2(sample_cap, Len(pixels')))
    /\ centroids' = initialize_centroids_deterministic(sampled_pixels', k)
    /\ q_pc' = IF max_iterations > 0 THEN "loop" ELSE "recolor"
    /\ UNCHANGED <<q_data, k, iterations, clusters, old_centroids, new_centroids,
                   converged, q_output>>
    /\ UNCHANGED inv_vars
    /\ UNCHANGED edge_vars

\* lines 32-37 index clusters[nearest] in a vector of k entries, and line 44
\* indexes centroids[i] for i < k
IterationPanics(assign) ==
    \/ \E i \in 1..Len(assign) : assign[i] >= k
    \/ \E c \in 0..(k - 1) : cluster_members(assign, c) = {} /\ c >= Len(centroids)

\* lines 31-55: one pass of the refinement loop
Iterate ==
    /\ q_pc = "loop"
    /\ clusters' = [i \in 1..Len(sampled_pixels) |->
                        find_nearest_centroid(sampled_pixels[i], centroids)]
    /\ iterations' = iterations + 1
    /\ old_centroids' = centroids
    /\ IF IterationPanics(clusters')
       THEN /\ q_pc' = "panic"
            /\ UNCHANGED <<centroids, new_centroids, converged>>
       ELSE /\ new_centroids' = [c \in 1..k |->
                                    new_centroid(sampled_pixels, clusters', centroids, c - 1)]
            /\ converged' = centroids_converged(centroids, new_centroids', threshold)
            /\ centroids' = IF converged' THEN centroids ELSE new_centroids'
            /\ q_pc' = IF converged' \/ iterations' >= max_iterations
                       THEN "recolor" ELSE "loop"
    /\ UNCHANGED <<q_data, k, pixels, sampled_pixels, q_output>>
    /\ UNCHANGED inv_vars
    /\ UNCHANGED edge_vars

\* lines 57-72: apply the centroids to all pixels
Recolor ==
    /\ q_pc = "recolor"
    /\ q_output' = recolor(q_data, pixels, centroids)
    /\ q_pc' = "done"
    /\ UNCHANGED <<q_data, k, pixels, sampled_pixels, centroids, iterations, clusters,
                   old_centroids, new_centroids, converged>>
    /\ UNCHANGED inv_vars
    /\ UNCHANGED edge_vars

-----------------------------------------------------------------------------
(* Specifications *)

InitInvert == InvInit /\ EdgeIdle /\ QIdle
NextInvert == InvertColorsCall
SpecInvert == InitInvert /\ [][NextInvert]_vars

InitEdge == InvIdle /\ EdgeInit /\ QIdle
NextEdge == Blur \/ Sobel
SpecEdge == InitEdge /\ [][NextEdge]_vars

InitQuant == InvIdle /\ EdgeIdle /\ QInit
NextQuant == Prepare \/ Iterate \/ Recolor
SpecQuant == InitQuant /\ [][NextQuant]_vars

-----------------------------------------------------------------------------
(* Properties of invert_colors *)

\* C4: inversion is its own inverse: after an even number of calls the buffer
\* is X again, byte for byte; one application maps each of R, G, B to
\* 255 - value and leaves every alpha byte unchanged.
C4_InvertInvolution ==
    /\ inv_calls % 2 = 0 => inv_data = inv_input
    /\ inv_calls % 2 = 1 =>
          /\ Len(inv_data) = Len(inv_input)
          /\ \A p \in 0..((Len(inv_input) \div 4) - 1) :
                /\ \A ch \in 1..3 : inv_data[4 * p + ch] + inv_input[4 * p + ch] = 255
                /\ inv_data[4 * p + 4] = inv_input[4 * p + 4]

\* two calls were made on a two-pixel buffer with a translucent pixel
C4_Witness ==
    /\ inv_calls = 2
    /\ Len(inv_input) = 8
    /\ inv_input[4] = 7
    /\ inv_data = inv_input

-----------------------------------------------------------------------------
(* Properties of edge_detection *)

PixelIndexes(data) == 0..((Len(data) \div 4) - 1)

\* every pixel has the RGB of the first one
Uniform(data) ==
    \A p \in PixelIndexes(data) : \A ch \in 1..3 : data[4 * p + ch] = data[ch]

InteriorPixels(w, h) ==
    { p \in 0..(w * h - 1) : Interior(w, h, p % w, p \div w) }

EdgeDone == edge_pc = "done"

\* C1: on a uniform image with width >= 3 and height >= 3 every interior
\* pixel of the output has R = G = B = 0.
C1_UniformInteriorZero ==
    (EdgeDone /\ width >= 3 /\ height >= 3 /\ Uniform(edge_input)) =>
        \A p \in InteriorPixels(width, height) :
            \A ch \in 1..3 : edge_output[4 * p + ch] = 0

\* C5: with width < 3 or height < 3 the call ends in an error result.
C5_SmallImageIsError ==
    (EdgeDone /\ (width < 3 \/ height < 3)) => edge_result = "err"

\* C6 as stated: every pixel of the output, border included, has alpha 255
\* and R = G = B in {0, 255}.
C6_EveryPixelOpaque ==
    (EdgeDone /\ width >= 3 /\ height >= 3) =>
        \A p \in PixelIndexes(edge_output) :
            /\ edge_output[4 * p + 4] = 255
            /\ edge_output[4 * p + 1] \in {0, 255}
            /\ edge_output[4 * p + 2] = edge_output[4 * p + 1]
            /\ edge_output[4 * p + 3] = edge_output[4 * p + 1]

\* C6 amended: every interior pixel has alpha 255 and R = G = B in {0, 255},
\* 255 exactly when the rounded Sobel magnitude of the blurred buffer exceeds
\* 170, i.e. sqrt(gx^2 + gy^2) >= 170.5; every border pixel is (0, 0, 0, 0).
C6_InteriorBinaryBorderZero ==
    (EdgeDone /\ width >= 3 /\ height >= 3) =>
        \A p \in PixelIndexes(edge_output) :
            LET x == p % width
                y == p \div width
                gx == sobel_gx(blurred, width, x, y)
                gy == sobel_gy(blurred, width, x, y)
            IN  IF Interior(width, height, x, y)
                THEN /\ edge_output[4 * p + 4] = 255
                     /\ edge_output[4 * p + 1] \in {0, 255}
                     /\ edge_output[4 * p + 2] = edge_output[4 * p + 1]
                     /\ edge_output[4 * p + 3] = edge_output[4 * p + 1]
                     /\ edge_output[4 * p + 1] = 255 <=>
                            4 * (gx * gx + gy * gy) >= 341 * 341
                ELSE \A ch \in 1..4 : edge_output[4 * p + ch] = 0

\* an output with an edge pixel and a non-edge pixel in its interior
C6_Witness ==
    /\ EdgeDone /\ width >= 3 /\ height >= 3
    /\ \E p \in InteriorPixels(width, height) : edge_output[4 * p + 1] = 255
    /\ \E p \in InteriorPixels(width, height) : edge_output[4 * p + 1] = 0

-----------------------------------------------------------------------------
(* Properties of quantize *)

QDone == q_pc = "done"

QPixelIndexes == 0..((Len(q_data) \div 4) - 1)

InRGB(p) == <<q_data[4 * p + 1], q_data[4 * p + 2], q_data[4 * p + 3]>>

OutRGB(p) == <<q_output[4 * p + 1], q_output[4 * p + 2], q_output[4 * p + 3]>>

InColours == { InRGB(p) : p \in QPixelIndexes }

OutColours == { OutRGB(p) : p \in QPixelIndexes }

SampleColours ==
    { <<sampled_pixels[i][1], sampled_pixels[i][2], sampled_pixels[i][3]>> :
        i \in 1..Len(sampled_pixels) }

\* the clusters of the last refinement pass that received a sample point
NonEmptyClusters == { clusters[i] : i \in 1..Len(clusters) }

\* C2 as stated: with k >= the number of distinct colours of the image, every
\* output pixel has the RGB of the input pixel at the same position.
C2_LosslessWhenKCovers ==
    (QDone /\ k >= 1 /\ k >= Cardinality(InColours)) =>
        \A p \in QPixelIndexes : OutRGB(p) = InRGB(p)

\* C2 amended: the same, for the images whose training sample holds every
\* distinct colour of the image; an image of at most 1000 pixels is sampled
\* whole, so it is one of them.
C2_LosslessWhenSampleCovers ==
    /\ (q_pc \in {"loop", "recolor", "done"} /\ Len(q_data) \div 4 <= 1000) =>
          SampleColours = InColours
    /\ (QDone /\ k >= 1 /\ k >= Cardinality(InColours) /\ SampleColours = InColours) =>
          \A p \in QPixelIndexes : OutRGB(p) = InRGB(p)

\* a two-colour image larger than the sample, both colours sampled, k = 2
C2_Witness ==
    /\ QDone
    /\ Len(q_data) \div 4 > 1000
    /\ k = 2
    /\ Cardinality(InColours) = 2
    /\ SampleColours = InColours
    /\ OutColours = InColours

\* C3 as stated: the output has at most k distinct colours and no more than
\* there are non-empty clusters.
C3_ColoursAtMostNonEmpty ==
    (QDone /\ k >= 1) =>
        /\ Cardinality(OutColours) <= k
        /\ Cardinality(OutColours) <= Cardinality(NonEmptyClusters)

\* C3 amended: at most k distinct colours; and no more than there are
\* non-empty clusters when every colour of the image is in the training sample
\* and the refinement stopped by convergence.
C3_ColoursAtMostK ==
    (QDone /\ k >= 1) =>
        /\ Cardinality(OutColours) <= k
        /\ (SampleColours = InColours /\ converged) =>
              Cardinality(OutColours) <= Cardinality(NonEmptyClusters)

\* three centroids, one of them without sample points, two colours written
C3_Witness ==
    /\ QDone
    /\ k = 3
    /\ converged
    /\ SampleColours = InColours
    /\ Cardinality(NonEmptyClusters) = 2
    /\ Cardinality(OutColours) = 2

\* C7: for k >= 1 the centroid sequence has exactly k entries after
\* initialisation, after every pass and when recolouring starts, and a cluster
\* that received no sample point keeps its previous centroid in the recomputed
\* set.
C7_CentroidCountStable ==
    k >= 1 =>
        /\ q_pc # "panic"
        /\ q_pc \in {"loop", "recolor", "done"} => Len(centroids) = k
        /\ iterations >= 1 =>
              /\ Len(old_centroids) = k
              /\ Len(new_centroids) = k
              /\ \A c \in 1..k :
                    (\A i \in 1..Len(clusters) : clusters[i] # c - 1) =>
                        new_centroids[c] = old_centroids[c]

\* a pass that moved some centroid while another cluster stayed empty
C7_Witness ==
    /\ k = 3
    /\ iterations >= 2
    /\ ~converged
    /\ Cardinality(NonEmptyClusters) = 2
    /\ Len(new_centroids) = 3
    /\ new_centroids # old_centroids

\* every old/new pair of the last pass is within Euclidean distance 1.0
AllPairsWithinOne ==
    \A c \in 1..Len(old_centroids) :
        LET o == old_centroids[c]
            n == new_centroids[c]
            dn == o[4] * n[4]
            x == [ch \in 1..3 |-> Abs(o[ch] * n[4] - n[ch] * o[4])]
        IN  /\ \A ch \in 1..3 : x[ch] <= dn
            /\ x[1] * x[1] + x[2] * x[2] + x[3] * x[3] <= dn * dn

\* C8: the loop runs at most 20 passes; it stops before 20 passes have been
\* completed exactly when a pass finds every old/new pair within 1.0; a pass
\* that finds a pair farther apart installs the recomputed centroids.
C8_LoopBoundAndConvergence ==
    /\ iterations <= 20
    /\ q_pc = "loop" => iterations < 20
    /\ (iterations >= 1 /\ q_pc # "panic") =>
          /\ converged <=> AllPairsWithinOne
          /\ converged => (centroids = old_centroids /\ q_pc \in {"recolor", "done"})
          /\ ~converged => centroids = new_centroids
          /\ (~converged /\ iterations < 20) => q_pc = "loop"
          /\ (~converged /\ iterations = 20) => q_pc \in {"recolor", "done"}

\* the cap ended the loop: 20 passes, the last one still moving
C8_Witness ==
    /\ QDone
    /\ iterations = 20
    /\ ~converged
    /\ centroids = new_centroids
    /\ centroids # old_centroids

\* C9: with k = 0 the initialiser returns no centroid and quantize completes
\* without an out-of-bounds failure.
C9_ZeroKIsHarmless ==
    (k = 0 /\ q_pc \in {"loop", "recolor", "done", "panic"}) =>
        /\ Len(centroids) = 0
        /\ q_pc # "panic"

\* centroid j is nearest to the pixel, and the lowest such index
NearestLowest(pixel, j) ==
    /\ \A m \in 1..Len(centroids) :
          ~DistLess(Dist2(pixel, centroids[m]), Dist2(pixel, centroids[j]))
    /\ \A m \in 1..(j - 1) :
          DistLess(Dist2(pixel, centroids[j]), Dist2(pixel, centroids[m]))

\* v is num/den rounded to the nearest integer, halves upward
IsRounded(v, num, den) ==
    /\ 2 * v * den <= 2 * num + den
    /\ 2 * num + den < 2 * v * den + 2 * den

\* C10: the output is as long as the input, every alpha byte is copied, and
\* every RGB is the rounded final centroid nearest to the input pixel, the
\* lowest index winning among equally near centroids.
C10_RecolourFrame ==
    (QDone /\ k >= 1) =>
        /\ Len(q_output) = Len(q_data)
        /\ \A p \in QPixelIndexes :
              /\ q_output[4 * p + 4] = q_data[4 * p + 4]
              /\ \E j \in 1..Len(centroids) :
                    /\ NearestLowest(<<InRGB(p)[1], InRGB(p)[2], InRGB(p)[3], 1>>, j)
                    /\ \A ch \in 1..3 :
                          IsRounded(q_output[4 * p + ch], centroids[j][ch], centroids[j][4])

\* a translucent pixel equally near to two different final centroids, written
\* with the one of lower index
C10_Witness ==
    /\ QDone
    /\ k >= 2
    /\ \E p \in QPixelIndexes :
          LET pixel == <<InRGB(p)[1], InRGB(p)[2], InRGB(p)[3], 1>>
          IN  /\ q_data[4 * p + 4] = 128
              /\ q_output[4 * p + 4] = 128
              /\ \E a, b \in 1..Len(centroids) :
                    /\ a < b
                    /\ centroids[a] # centroids[b]
                    /\ Dist2(pixel, centroids[a]) = Dist2(pixel, centroids[b])
                    /\ NearestLowest(pixel, a)
                    /\ \A ch \in 1..3 : q_output[4 * p + ch] * centroids[a][4] = centroids[a][ch]

====
